---------------------------- MODULE Spec2Model ----------------------------
(***************************************************************************)
(* Table engine of blackjack-agents: the TableState class (engine/state.ts) *)
(* with the Shoe (engine/shoe.ts), the rules (rules section of config.ts)   *)
(* and the agent calls it awaits (mcp/httpClient.ts).                       *)
(*                                                                          *)
(* The variable `state` is TableState.state (the GameState record).  Every  *)
(* synchronous method is one action; an async method is cut at its awaits:  *)
(* the part before an agent call is one action, and the arrival of the      *)
(* agent's reply (or failure) with the code that follows it is another.     *)
(***************************************************************************)
EXTENDS Integers, Sequences, FiniteSets, TLC

VARIABLES
    state,         \* TableState.state : GameState
    agentClients,  \* TableState.agentClients : the seats backed by an agent
    betSweeps,     \* placeBetsForAllAgents invocations suspended at an await
    decideSweeps,  \* processAllAgentDecisions invocations suspended at an await
    last,          \* the operation performed by the last step and what it returned
    callers        \* the calls the callers may still make: new hands, calls out of phase

vars == <<state, agentClients, betSweeps, decideSweeps, last, callers>>

---------------------------------------------------------------------------
(* Bounds of the model *)

\* the hand number up to which callers that keep to the phases start hands
MaxHands == 2
\* the same for callers that also call outside the phases
MaxStrayHands == 1
\* the model keeps the most recent MaxChat entries of the chat log
MaxChat == 1
\* placeBetsForAllAgents invocations in flight at once
MaxBetSweeps == 1
\* processAllAgentDecisions invocations in flight at once
MaxDecideSweeps == 1
\* calls made outside the phase they belong to that the engine did not reject
MaxStrays == 1
\* invocations of each sweep in flight at once, and hands, where sweeps race
MaxRaceSweeps == 2
MaxRaceHands == 2
\* cards of a hand given to calculateHandValue and shouldDealerHit
MaxHandLen == 4
\* cards of each hand given to determineHandResult
MaxResultLen == 3
\* hands started and resets of the second shoe in the shoe specification
MaxShoeHands == 2
MaxShoeResets == 1
\* the most cards of the shoe already drawn when a hand late in the shoe starts
MaxExhaustDealt == 14

---------------------------------------------------------------------------
(* Program constants *)

MinBet == 5
MaxBet == 100
StartBankroll == 100
ReshuffleThreshold == 20
ChatMaxLen == 160
RationaleMaxLen == 240
DealerStandValue == 17
BlackjackValue == 21

Seats == {0, 1, 2}
Phases == {"waiting", "betting", "dealing", "decisions", "dealer", "settling", "finished"}
Actions == {"hit", "stand", "double", "split"}
\* double and split take the same (empty) branch of applyPlayerAction
ActionInputs == {"hit", "stand", "double"}

NoCard == 0
NoSeat == -1
NotCompleted == -1

---------------------------------------------------------------------------
(* Rules *)

RECURSIVE rawValue(_)
rawValue(cards) ==
    IF cards = <<>> THEN 0
    ELSE (IF Head(cards) = 1 THEN 11 ELSE Head(cards)) + rawValue(Tail(cards))

RECURSIVE countAces(_)
countAces(cards) ==
    IF cards = <<>> THEN 0
    ELSE (IF Head(cards) = 1 THEN 1 ELSE 0) + countAces(Tail(cards))

RECURSIVE convertAces(_, _)
convertAces(value, aces) ==
    IF value > 21 /\ aces > 0 THEN convertAces(value - 10, aces - 1) ELSE value

\* calculateHandValue that converts at most one ace
calculateHandValueOneAce(cards) ==
    IF rawValue(cards) > 21 /\ countAces(cards) > 0 THEN rawValue(cards) - 10 ELSE rawValue(cards)

calculateHandValue(cards) == convertAces(rawValue(cards), countAces(cards))

isBlackjack(cards) == Len(cards) = 2 /\ calculateHandValue(cards) = BlackjackValue

isBust(cards) == calculateHandValue(cards) > 21

\* the loop of shouldDealerHit: hasAceAsEleven is set when a conversion lands on 17
RECURSIVE hasAceAsEleven(_, _, _)
hasAceAsEleven(tempValue, aces, found) ==
    IF tempValue > 21 /\ aces > 0
    THEN hasAceAsEleven(tempValue - 10, aces - 1, found \/ (tempValue - 10 = DealerStandValue))
    ELSE found

shouldDealerHit(dealerCards) ==
    LET value == calculateHandValue(dealerCards)
    IN  IF value = DealerStandValue
        THEN hasAceAsEleven(rawValue(dealerCards), countAces(dealerCards), FALSE)
        ELSE value < DealerStandValue

\* determineHandResult that looks at the dealer's bust first
determineHandResultDealerFirst(playerCards, dealerCards) ==
    LET playerValue == calculateHandValue(playerCards)
        dealerValue == calculateHandValue(dealerCards)
        playerBlackjack == isBlackjack(playerCards)
        dealerBlackjack == isBlackjack(dealerCards)
    IN  IF isBust(dealerCards) THEN "win"
        ELSE IF isBust(playerCards) THEN "lose"
        ELSE IF playerBlackjack /\ dealerBlackjack THEN "push"
        ELSE IF playerBlackjack /\ ~dealerBlackjack THEN "win"
        ELSE IF ~playerBlackjack /\ dealerBlackjack THEN "lose"
        ELSE IF playerValue > dealerValue THEN "win"
        ELSE IF playerValue < dealerValue THEN "lose"
        ELSE "push"

determineHandResult(playerCards, dealerCards) ==
    LET playerValue == calculateHandValue(playerCards)
        dealerValue == calculateHandValue(dealerCards)
        playerBlackjack == isBlackjack(playerCards)
        dealerBlackjack == isBlackjack(dealerCards)
    IN  IF isBust(playerCards) THEN "lose"
        ELSE IF isBust(dealerCards) THEN "win"
        ELSE IF playerBlackjack /\ dealerBlackjack THEN "push"
        ELSE IF playerBlackjack /\ ~dealerBlackjack THEN "win"
        ELSE IF ~playerBlackjack /\ dealerBlackjack THEN "lose"
        ELSE IF playerValue > dealerValue THEN "win"
        ELSE IF playerValue < dealerValue THEN "lose"
        ELSE "push"

---------------------------------------------------------------------------
(* Shoe.  The 208-card population is scaled down to 20 cards, and the      *)
(* seeded generator to the indices it gives the shuffle for each seed.      *)

\* the seed of the table's shoe, and the seeds of the shoes of the shoe specification
Seeds == {1}
ShoeSeeds == {1, 2, 3}

\* the cards reset pushes before it shuffles: aces, then 2..9, then the tens
Population ==
    <<1, 1,   2, 2, 3, 3, 4, 4, 5, 5, 6, 6, 7, 7, 9,   10, 10, 10, 10, 10>>

\* mulberry32(seed): Math.floor(rng() * (i + 1)) of its successive calls in shuffle
mulberry32(seed) ==
    CASE seed = 1 ->
           <<7, 3, 11, 9, 1, 5, 5, 11, 4, 2, 6, 8, 5, 6, 2, 4, 3, 0, 1>>
      [] seed = 2 ->
           <<10, 4, 12, 1, 2, 13, 8, 1, 5, 9, 0, 8, 3, 0, 0, 3, 3, 0, 0>>
      [] OTHER ->
           <<2, 17, 13, 1, 3, 3, 10, 10, 9, 0, 9, 6, 0, 1, 0, 4, 1, 1, 1>>

\* [cards[i], cards[j]] = [cards[j], cards[i]], i and j counted from 0
swap(cards, i, j) == [cards EXCEPT ![i + 1] = cards[j + 1], ![j + 1] = cards[i + 1]]

\* the loop of Shoe.shuffle from index i down to 1
RECURSIVE fisherYates(_, _, _)
fisherYates(cards, rng, i) ==
    IF i <= 0 THEN cards
    ELSE fisherYates(swap(cards, i, rng[Len(cards) - i]), rng, i - 1)

\* Shoe.shuffle: the seeded Fisher-Yates pass over the cards
shuffle(cards, seed) == fisherYates(cards, mulberry32(seed), Len(cards) - 1)

\* reset that shuffles the cards the shoe holds instead of a rebuilt population
ShoeResetInPlace(shoe) ==
    [seed |-> shoe.seed,
     cards |-> shuffle(IF shoe.cards = <<>> THEN Population ELSE shoe.cards, shoe.seed),
     dealt |-> 0]

\* the order each seed shuffles the rebuilt population to
Shuffled == [seed \in ShoeSeeds |-> shuffle(Population, seed)]

\* Shoe.reset: rebuild the population, shuffle with this.seed, dealt = 0
ShoeReset(shoe) == [seed |-> shoe.seed, cards |-> Shuffled[shoe.seed], dealt |-> 0]

\* new Shoe(seed, 4)
NewShoe(seed) == ShoeReset([seed |-> seed, cards |-> <<>>, dealt |-> 0])

\* Shoe.draw: the card returned (NoCard for null) and the shoe afterwards
drawnCard(shoe) ==
    IF shoe.dealt >= Len(shoe.cards) THEN NoCard ELSE shoe.cards[shoe.dealt + 1]

\* a draw that advances dealt on an exhausted shoe too
afterDrawPastEnd(shoe) == [shoe EXCEPT !.dealt = @ + 1]

afterDraw(shoe) ==
    IF shoe.dealt >= Len(shoe.cards) THEN shoe ELSE [shoe EXCEPT !.dealt = @ + 1]

getCardsRemaining(shoe) == Len(shoe.cards) - shoe.dealt

\* Shoe.getPenetration: the quotient dealt / cards.length as <<dealt, length>>
getPenetration(shoe) == IF Len(shoe.cards) = 0 THEN <<0, 1>> ELSE <<shoe.dealt, Len(shoe.cards)>>

\* Shoe.getRunningCount: +1 for 2..6, -1 for ten and ace, over the dealt cards
RECURSIVE runningCountOf(_, _)
runningCountOf(cards, n) ==
    IF n = 0 THEN 0
    ELSE runningCountOf(cards, n - 1)
         + (IF cards[n] >= 2 /\ cards[n] <= 6 THEN 1
            ELSE IF cards[n] = 10 \/ cards[n] = 1 THEN -1 ELSE 0)

getRunningCount(shoe) == runningCountOf(shoe.cards, shoe.dealt)


---------------------------------------------------------------------------
(* GameState and the synchronous methods of TableState, as functions of the *)
(* state record g.                                                          *)

NewPlayer ==
    [cards |-> <<>>, bet |-> 0, isStanding |-> FALSE, isBusted |-> FALSE,
     lastAction |-> "none", bankroll |-> StartBankroll]

NewDealer == [cards |-> <<>>, isStanding |-> FALSE, isBusted |-> FALSE]

NewDebug ==
    [bettingCompletion |-> [s \in Seats |-> NotCompleted],
     agentBettingInitiated |-> FALSE,
     decisionProcessingInProgress |-> FALSE]

\* the constructor and resetEntireGame build this record
NewGameState(seed) ==
    [handNumber |-> 0,
     shoe |-> NewShoe(seed),
     dealer |-> NewDealer,
     players |-> [s \in Seats |-> NewPlayer],
     chat |-> <<>>,
     phase |-> "waiting",
     currentPlayerIndex |-> NoSeat,
     debug |-> NewDebug]

\* F(x), with x evaluated once however often F refers to its argument
Once(F(_), x) == CHOOSE r \in {F(v) : v \in {x}} : TRUE

setPhase(g, newPhase) == [g EXCEPT !.phase = newPhase]

\* chat texts: what was said (kind) and its length in characters
RationaleText(len) == [kind |-> "rationale", len |-> len]
BetFallbackText == [kind |-> "bet-fallback", len |-> 43]
BetErrorText == [kind |-> "bet-error", len |-> 63]
StandFallbackText == [kind |-> "stand-fallback", len |-> 42]

\* a text that is pushed uncut
substringAll(text) == text

\* text.substring(0, 160)
substring160(text) ==
    [text EXCEPT !.len = IF @ > ChatMaxLen THEN ChatMaxLen ELSE @]

\* chat.push, the log cut to its most recent MaxChat entries
pushChat(chat, msg) ==
    IF Len(chat) < MaxChat THEN Append(chat, msg) ELSE Append(Tail(chat), msg)

addChatMessage(g, from, text) ==
    [g EXCEPT !.chat = pushChat(@, [from |-> from, text |-> substring160(text)])]

\* startNewHand without the increment of the hand number
startNewHandSameNumber(g) ==
    LET g1 == setPhase(g, "betting")
    IN  [g1 EXCEPT
            !.currentPlayerIndex = NoSeat,
            !.shoe = IF getCardsRemaining(@) < ReshuffleThreshold THEN ShoeReset(@) ELSE @,
            !.dealer = NewDealer,
            !.players = [s \in Seats |->
                            [@[s] EXCEPT !.cards = <<>>, !.bet = 0, !.isStanding = FALSE,
                                         !.isBusted = FALSE, !.lastAction = "none"]],
            !.chat = <<>>,
            !.debug = [@ EXCEPT !.bettingCompletion = [s \in Seats |-> NotCompleted],
                                !.agentBettingInitiated = FALSE,
                                !.decisionProcessingInProgress = FALSE]]

startNewHand(g) ==
    LET g1 == setPhase([g EXCEPT !.handNumber = @ + 1], "betting")
    IN  [g1 EXCEPT
            !.currentPlayerIndex = NoSeat,
            !.shoe = IF getCardsRemaining(@) < ReshuffleThreshold THEN ShoeReset(@) ELSE @,
            !.dealer = NewDealer,
            !.players = [s \in Seats |->
                            [@[s] EXCEPT !.cards = <<>>, !.bet = 0, !.isStanding = FALSE,
                                         !.isBusted = FALSE, !.lastAction = "none"]],
            !.chat = <<>>,
            !.debug = [@ EXCEPT !.bettingCompletion = [s \in Seats |-> NotCompleted],
                                !.agentBettingInitiated = FALSE,
                                !.decisionProcessingInProgress = FALSE]]

\* betAccepted without the test against the available balance
betAcceptedAnyBalance(g, seat, amount) ==
    /\ g.phase = "betting"
    /\ seat \in Seats
    /\ ~(amount < 0 \/ amount > MaxBet)

\* betAccepted without the test for a negative amount
betAcceptedAnySign(g, seat, amount) ==
    /\ g.phase = "betting"
    /\ seat \in Seats
    /\ ~(amount > g.players[seat].bankroll + g.players[seat].bet \/ amount > MaxBet)

\* placeBet returns true
betAccepted(g, seat, amount) ==
    /\ g.phase = "betting"
    /\ seat \in Seats
    /\ ~(amount < 0 \/ amount > g.players[seat].bankroll + g.players[seat].bet \/ amount > MaxBet)

\* escrow that does not give the previous bet back
escrowWithoutRefund(player, amount) ==
    [player EXCEPT !.bet = amount,
                   !.bankroll = IF amount > 0 THEN @ - amount ELSE @]

\* the bet of an accepted placeBet: the previous bet back, the new one out
escrow(player, amount) ==
    LET refunded == IF player.bet > 0 THEN player.bankroll + player.bet ELSE player.bankroll
    IN  [player EXCEPT !.bet = amount,
                       !.bankroll = IF amount > 0 THEN refunded - amount ELSE refunded]

placeBet(g, seat, amount) ==
    IF betAccepted(g, seat, amount)
    THEN [g EXCEPT !.players[seat] = escrow(@, amount)]
    ELSE g

completeBetting(g, seat, amount) ==
    [g EXCEPT !.debug.bettingCompletion[seat] = amount]

\* placeBetForAgent after its awaits: reply is the agent's answer,
\* [ok |-> FALSE] for a call that threw (timeout, HTTP error, schema failure)
fallbackBet(g, seat, text) ==
    completeBetting(addChatMessage(placeBet(g, seat, MinBet), seat, text), seat, MinBet)

\* the schema of a bet reply: the amount is numeric and non-negative
BetOut(reply) == reply.amount >= 0

\* placeBetStreaming returns: the call answered and the answer parses
betReplied(reply) == reply.ok /\ BetOut(reply)

applyBetReply(g, seat, reply) ==
    IF ~betReplied(reply) THEN fallbackBet(g, seat, BetErrorText)
    ELSE IF betAccepted(g, seat, reply.amount)
    THEN completeBetting(
            addChatMessage(placeBet(g, seat, reply.amount), seat, RationaleText(reply.len)),
            seat, reply.amount)
    ELSE fallbackBet(g, seat, BetFallbackText)

allPlayersHaveBet(g, agents) ==
    /\ \A s \in agents :
          ~(g.debug.bettingCompletion[s] = NotCompleted \/ g.debug.bettingCompletion[s] < MinBet)
    /\ \A s \in Seats \ agents : ~(g.players[s].bet < MinBet)

\* one draw of dealInitialCards, to a seat or (NoSeat) to the dealer
dealOne(g, target) ==
    LET card == drawnCard(g.shoe)
        g1 == [g EXCEPT !.shoe = afterDraw(@)]
    IN  IF card = NoCard THEN g1
        ELSE IF target = NoSeat THEN [g1 EXCEPT !.dealer.cards = Append(@, card)]
        ELSE [g1 EXCEPT !.players[target].cards = Append(@, card)]

RECURSIVE dealAll(_, _)
dealAll(g, targets) ==
    IF targets = <<>> THEN g
    ELSE LET rest(g1) == dealAll(g1, Tail(targets))
         IN  Once(rest, dealOne(g, Head(targets)))

\* a deal that serves the dealer before the seats
DealOrderDealerFirst == <<NoSeat, 0, 1, 2, NoSeat, 0, 1, 2>>

DealOrder == <<0, 1, 2, NoSeat, 0, 1, 2, NoSeat>>

dealInitialCards(g) ==
    [dealAll(g, DealOrder) EXCEPT !.players = [s \in Seats |->
        IF isBlackjack(@[s].cards) THEN [@[s] EXCEPT !.isStanding = TRUE] ELSE @[s]]]

startDealingAllowed(g, agents) == g.phase = "betting" /\ allPlayersHaveBet(g, agents)

startDealing(g) == dealInitialCards(setPhase(g, "dealing"))

\* a dealer that ignores its bust: the loop of playDealerHand without the
\* assignment of isBusted
RECURSIVE dealerLoopNoFlag(_)
dealerLoopNoFlag(g) ==
    IF ~shouldDealerHit(g.dealer.cards) THEN g
    ELSE LET card == drawnCard(g.shoe)
             g1 == [g EXCEPT !.shoe = afterDraw(@)]
         IN  IF card = NoCard THEN g1
             ELSE LET g2 == [g1 EXCEPT !.dealer.cards = Append(@, card)]
                      again(g3) == IF isBust(g3.dealer.cards) THEN g3 ELSE dealerLoopNoFlag(g3)
                  IN  Once(again, g2)

\* the while loop of playDealerHand
RECURSIVE dealerLoop(_)
dealerLoop(g) ==
    IF ~shouldDealerHit(g.dealer.cards) THEN g
    ELSE LET card == drawnCard(g.shoe)
             g1 == [g EXCEPT !.shoe = afterDraw(@)]
         IN  IF card = NoCard THEN g1
             ELSE LET g2 == [g1 EXCEPT !.dealer.cards = Append(@, card)]
                      again(g3) == IF isBust(g3.dealer.cards)
                                   THEN [g3 EXCEPT !.dealer.isBusted = TRUE]
                                   ELSE dealerLoop(g3)
                  IN  Once(again, g2)

playDealerHand(g) ==
    setPhase([dealerLoop(g) EXCEPT !.dealer.isStanding = TRUE], "settling")

\* a payout that pays a blackjack even money
payoutOfEvenMoney(result, cards, bet) == IF result = "win" THEN bet ELSE 0

\* the payout of a result, and what settleHands adds to the bankroll
payoutOf(result, cards, bet) ==
    IF result = "win" THEN (IF isBlackjack(cards) THEN (3 * bet) \div 2 ELSE bet) ELSE 0

\* bankrollCredit that pays the winnings of a win without returning the bet
bankrollCreditWinningsOnly(result, cards, bet) ==
    CASE result = "win" -> payoutOf(result, cards, bet)
      [] result = "lose" -> 0
      [] result = "push" -> bet

\* bankrollCredit that keeps the bet of a push
bankrollCreditNoPush(result, cards, bet) ==
    CASE result = "win" -> bet + payoutOf(result, cards, bet)
      [] result = "lose" -> 0
      [] result = "push" -> 0

bankrollCredit(result, cards, bet) ==
    CASE result = "win" -> bet + payoutOf(result, cards, bet)
      [] result = "lose" -> 0
      [] result = "push" -> bet

settleResults(g) ==
    [s \in Seats |->
        LET result == determineHandResult(g.players[s].cards, g.dealer.cards)
        IN  [seat |-> s, result |-> result,
             payout |-> payoutOf(result, g.players[s].cards, g.players[s].bet)]]

settleHands(g) ==
    setPhase([g EXCEPT !.players = [s \in Seats |->
                 [@[s] EXCEPT !.bankroll = @ + bankrollCredit(
                     determineHandResult(g.players[s].cards, g.dealer.cards),
                     g.players[s].cards, g.players[s].bet)]]],
             "finished")

\* the seats findNextActivePlayer may select
activeAfter(g, currentSeat) ==
    {s \in Seats : /\ s > currentSeat
                   /\ ~g.players[s].isStanding
                   /\ ~g.players[s].isBusted
                   /\ calculateHandValue(g.players[s].cards) < 21}

minSeat(S) == CHOOSE s \in S : \A t \in S : s <= t

findNextActivePlayer(g) ==
    LET next == activeAfter(g, g.currentPlayerIndex)
    IN  IF next # {}
        THEN [g EXCEPT !.currentPlayerIndex = minSeat(next)]
        ELSE Once(settleHands, Once(playDealerHand,
                 setPhase([g EXCEPT !.currentPlayerIndex = NoSeat], "dealer")))

canPlayerAct(g, seat) ==
    IF g.phase # "decisions" \/ g.currentPlayerIndex # seat THEN FALSE
    ELSE seat \in Seats /\ ~g.players[seat].isStanding /\ ~g.players[seat].isBusted

\* applyPlayerAction returns true
actionAccepted(g, seat) ==
    seat \in Seats /\ ~g.players[seat].isStanding /\ ~g.players[seat].isBusted

\* a hit that leaves a seat at 21 able to act
hitPlayerOn21(player, card) ==
    IF card = NoCard THEN player
    ELSE LET p1 == [player EXCEPT !.cards = Append(@, card)]
         IN  IF isBust(p1.cards) THEN [p1 EXCEPT !.isBusted = TRUE, !.isStanding = TRUE]
             ELSE p1

\* a hit that marks a bust without marking the seat standing
hitPlayerBustOnly(player, card) ==
    IF card = NoCard THEN player
    ELSE LET p1 == [player EXCEPT !.cards = Append(@, card)]
         IN  IF isBust(p1.cards) THEN [p1 EXCEPT !.isBusted = TRUE]
             ELSE IF calculateHandValue(p1.cards) = 21 THEN [p1 EXCEPT !.isStanding = TRUE]
             ELSE p1

\* the switch of applyPlayerAction on the seat's player record and the shoe
hitPlayer(player, card) ==
    IF card = NoCard THEN player
    ELSE LET p1 == [player EXCEPT !.cards = Append(@, card)]
         IN  IF isBust(p1.cards) THEN [p1 EXCEPT !.isBusted = TRUE, !.isStanding = TRUE]
             ELSE IF calculateHandValue(p1.cards) = 21 THEN [p1 EXCEPT !.isStanding = TRUE]
             ELSE p1

actOn(g, seat, action) ==
    LET g1 == [g EXCEPT !.players[seat].lastAction = action]
    IN  CASE action = "hit" ->
               [g1 EXCEPT !.players[seat] = hitPlayer(@, drawnCard(g.shoe)),
                          !.shoe = afterDraw(@)]
          [] action = "stand" -> [g1 EXCEPT !.players[seat].isStanding = TRUE]
          [] OTHER -> g1

applyPlayerAction(g, seat, action) ==
    IF ~actionAccepted(g, seat) THEN g
    ELSE LET advance(g1) == IF g1.players[seat].isStanding \/ g1.players[seat].isBusted
                            THEN findNextActivePlayer(g1)
                            ELSE g1
         IN  Once(advance, actOn(g, seat, action))

\* a fallback that draws
fallbackActionHit == "hit"

\* makeDecisionForAgent after its await: the action of the catch block
fallbackAction == "stand"

applyDecideReply(g, seat, reply) ==
    IF reply.ok
    THEN applyPlayerAction(addChatMessage(g, seat, RationaleText(reply.len)), seat, reply.action)
    ELSE applyPlayerAction(addChatMessage(g, seat, StandFallbackText), seat, fallbackAction)

\* the loop condition of processAllAgentDecisions: the next call goes to this seat
decisionLoopRuns(g, agents) ==
    g.phase = "decisions" /\ g.currentPlayerIndex >= 0 /\ g.currentPlayerIndex \in agents

\* the dealer card the views show: the first, an ace when there is none
dealerUpcard(g) == IF Len(g.dealer.cards) > 0 THEN g.dealer.cards[1] ELSE 1

\* the players of a public snapshot
publicPlayers(g) ==
    [s \in Seats |->
        [seat |-> s, visibleCards |-> g.players[s].cards, lastAction |-> g.players[s].lastAction,
         bet |-> g.players[s].bet, balance |-> g.players[s].bankroll]]

getPublicSnapshot(g) ==
    [handNumber |-> g.handNumber,
     shoePenetration |-> getPenetration(g.shoe),
     runningCount |-> getRunningCount(g.shoe),
     players |-> publicPlayers(g),
     dealerUpcard |-> dealerUpcard(g),
     chat |-> g.chat]

\* the state the routes and the socket send to the frontend
getState(g) ==
    [snap |-> getPublicSnapshot(g),
     status |-> g.phase,
     seats |-> [s \in Seats |->
                   [seat |-> s, isActive |-> ~g.players[s].isStanding /\ ~g.players[s].isBusted]],
     dealer |-> [cards |-> g.dealer.cards,
                 visibleCards |-> IF g.phase = "dealing" \/ g.phase = "decisions"
                                  THEN SubSeq(g.dealer.cards, 1, 1)
                                  ELSE g.dealer.cards,
                 isStanding |-> g.dealer.isStanding,
                 isBusted |-> g.dealer.isBusted],
     currentPlayerIndex |-> g.currentPlayerIndex,
     debug |-> [phase |-> g.phase,
                bettingCompletion |-> g.debug.bettingCompletion,
                agentBettingInitiated |-> g.debug.agentBettingInitiated,
                decisionProcessingInProgress |-> g.debug.decisionProcessingInProgress]]

getPrivateInfo(g, seat) ==
    [myHoleCards |-> g.players[seat].cards, mySeat |-> seat, bankroll |-> g.players[seat].bankroll]

\* the request makeDecisionForAgent hands to the agent of the seat
buildAgentIO(g, seat, role) ==
    [role |-> role,
     public |-> [handNumber |-> g.handNumber,
                 shoePenetration |-> getPenetration(g.shoe),
                 dealerUpcard |-> dealerUpcard(g),
                 players |-> publicPlayers(g),
                 chat |-> g.chat],
     me |-> [mySeat |-> seat, bankroll |-> g.players[seat].bankroll,
             myHoleCards |-> g.players[seat].cards]]

---------------------------------------------------------------------------
(* Inputs *)

\* seats a caller may name: the three seats and one that does not exist
UnknownSeat == 3
\* bet_amount values of an agent's reply
AgentBetInputs == {-1, 3, 5, 100, 101}
\* lengths of an agent's rationale
RationaleLens == {RationaleMaxLen}

FailedReply == [ok |-> FALSE, amount |-> 0, action |-> "none", len |-> 0]
BetReplies ==
    {FailedReply} \cup
    {[ok |-> TRUE, amount |-> a, action |-> "none", len |-> l] :
        a \in AgentBetInputs, l \in RationaleLens}
DecideReplies ==
    {FailedReply} \cup
    {[ok |-> TRUE, amount |-> 0, action |-> a, len |-> l] : a \in ActionInputs, l \in RationaleLens}

\* the seats of a set in decreasing order
RECURSIVE seatOrderDescending(_)
seatOrderDescending(S) ==
    IF S = {} THEN <<>>
    ELSE LET top == CHOOSE s \in S : \A t \in S : t <= s
         IN  <<top>> \o seatOrderDescending(S \ {top})

\* the seats of a set in increasing order (the insertion order of agentClients)
RECURSIVE seatOrder(_)
seatOrder(S) == IF S = {} THEN <<>> ELSE <<minSeat(S)>> \o seatOrder(S \ {minSeat(S)})

removeAt(seq, i) == SubSeq(seq, 1, i - 1) \o SubSeq(seq, i + 1, Len(seq))

---------------------------------------------------------------------------
(* What a step did: the operation, its arguments and what it returned.      *)

NoResults == [s \in Seats |-> [seat |-> s, result |-> "none", payout |-> 0]]

Did(op, seat, amount, action, ok, replied, settled, results) ==
    [op |-> op, seat |-> seat, amount |-> amount, action |-> action,
     ok |-> ok, replied |-> replied, settled |-> settled, results |-> results]

\* an operation without arguments that returned ok and settled nothing
Plain(op, ok) == Did(op, NoSeat, 0, "none", ok, TRUE, FALSE, NoResults)

\* findNextActivePlayer on g plays the dealer and settles the hands
endsHand(g) == activeAfter(g, g.currentPlayerIndex) = {}

---------------------------------------------------------------------------
(* The callers.  The HTTP routes call the methods at any time; a run of the *)
(* model is one of callers that keep to the phases, or one of callers that  *)
(* also make calls outside the phase a call belongs to.                     *)

\* the calls of placeBet and applyPlayerAction: <<seat, amount>>, <<seat, action>>
BetCalls ==
    {<<0, 0>>, <<1, -1>>, <<1, 100>>, <<1, 101>>, <<2, 5>>, <<UnknownSeat, MinBet>>}
ActionCalls ==
    {<<1, "hit">>, <<1, "stand">>, <<1, "double">>, <<2, "stand">>, <<UnknownSeat, "hit">>}
StrayBetCalls == {<<1, 100>>, <<2, 5>>}
StrayActionCalls == {<<1, "hit">>, <<1, "stand">>}

Callers ==
    {[hands |-> MaxHands, resets |-> TRUE, strays |-> 0,
      bets |-> BetCalls, actions |-> ActionCalls, agentBets |-> AgentBetInputs,
      betSweeps |-> MaxBetSweeps, decideSweeps |-> MaxDecideSweeps],
     [hands |-> MaxStrayHands, resets |-> FALSE, strays |-> MaxStrays,
      bets |-> StrayBetCalls, actions |-> StrayActionCalls, agentBets |-> {MinBet},
      betSweeps |-> MaxBetSweeps, decideSweeps |-> MaxDecideSweeps]}

\* a call made in its phase, or a call made out of it that the engine runs
Called(inPhase) ==
    IF inPhase THEN UNCHANGED callers
    ELSE callers.strays > 0 /\ callers' = [callers EXCEPT !.strays = @ - 1]

---------------------------------------------------------------------------
(* Actions *)

Init ==
    /\ \E seed \in Seeds : state = NewGameState(seed)
    /\ agentClients = {0}
    /\ betSweeps = <<>>
    /\ decideSweeps = <<>>
    /\ last = Plain("constructor", TRUE)
    /\ callers \in Callers

StartNewHand ==
    /\ state.handNumber < callers.hands
    /\ state' = startNewHand(state)
    /\ last' = Plain("startNewHand", TRUE)
    /\ UNCHANGED <<agentClients, betSweeps, decideSweeps, callers>>

ResetEntireGame ==
    /\ callers.resets
    /\ \E seed \in Seeds : state' = NewGameState(seed)
    /\ last' = Plain("resetEntireGame", TRUE)
    /\ UNCHANGED <<agentClients, betSweeps, decideSweeps, callers>>

PlaceBet(seat, amount) ==
    /\ state' = placeBet(state, seat, amount)
    /\ last' = Did("placeBet", seat, amount, "none", betAccepted(state, seat, amount),
                   TRUE, FALSE, NoResults)
    /\ UNCHANGED <<agentClients, betSweeps, decideSweeps, callers>>

\* POST /agent-bets: markAgentBettingInitiated, then placeBetsForAllAgents up to
\* the await of the first agent's reply
AgentBets ==
    LET g1 == [state EXCEPT !.debug.agentBettingInitiated = TRUE]
    IN  /\ Len(betSweeps) < callers.betSweeps
        /\ state' = g1
        /\ last' = Plain("placeBetsForAllAgents", g1.phase = "betting")
        /\ betSweeps' = IF g1.phase = "betting" /\ agentClients # {}
                        THEN Append(betSweeps, [todo |-> seatOrder(agentClients), pc |-> "reply"])
                        ELSE betSweeps
        /\ UNCHANGED <<agentClients, decideSweeps, callers>>

\* the reply to the placeBetStreaming call of sweep i arrives (or the call throws)
BetReply(i, reply) ==
    LET sweep == betSweeps[i]
        seat == Head(sweep.todo)
    IN  /\ sweep.pc = "reply"
        /\ state' = applyBetReply(state, seat, reply)
        /\ last' = Did("placeBetForAgent", seat, reply.amount, "none",
                       betReplied(reply) /\ betAccepted(state, seat, reply.amount),
                       betReplied(reply), FALSE, NoResults)
        /\ betSweeps' = IF Len(sweep.todo) = 1
                        THEN removeAt(betSweeps, i)
                        ELSE [betSweeps EXCEPT ![i] = [todo |-> Tail(sweep.todo), pc |-> "pause"]]
        /\ UNCHANGED <<agentClients, decideSweeps, callers>>

\* after the pause between two agents, sweep i calls placeBetForAgent for its
\* next seat; outside betting that throws for every seat left
BetSweepResume(i) ==
    LET sweep == betSweeps[i]
    IN  /\ sweep.pc = "pause"
        /\ betSweeps' = IF state.phase = "betting"
                        THEN [betSweeps EXCEPT ![i].pc = "reply"]
                        ELSE removeAt(betSweeps, i)
        /\ last' = Did("placeBetForAgent.call", Head(sweep.todo), 0, "none",
                       state.phase = "betting", TRUE, FALSE, NoResults)
        /\ UNCHANGED <<state, agentClients, decideSweeps, callers>>

StartDealing ==
    /\ state' = IF startDealingAllowed(state, agentClients) THEN startDealing(state) ELSE state
    /\ last' = Plain("startDealing", startDealingAllowed(state, agentClients))
    /\ UNCHANGED <<agentClients, betSweeps, decideSweeps, callers>>

\* processAllAgentDecisions up to its first await: the state it leaves and the
\* seat whose agent it calls (NoSeat when it returns or throws before a call)
processingCall(g, agents) ==
    IF g.phase = "decisions" /\ ~g.debug.decisionProcessingInProgress /\ decisionLoopRuns(g, agents)
    THEN g.currentPlayerIndex
    ELSE NoSeat

processingStart(g, agents) ==
    IF processingCall(g, agents) # NoSeat
    THEN [g EXCEPT !.debug.decisionProcessingInProgress = TRUE]
    ELSE IF g.phase = "decisions" /\ ~g.debug.decisionProcessingInProgress
    THEN [g EXCEPT !.debug.decisionProcessingInProgress = FALSE]
    ELSE g

withCall(sweeps, seat) == IF seat = NoSeat THEN sweeps ELSE Append(sweeps, [seat |-> seat])

StartDecisionPhase ==
    LET g1 == findNextActivePlayer(
                  [setPhase(state, "decisions") EXCEPT !.currentPlayerIndex = NoSeat])
        settled == endsHand([setPhase(state, "decisions") EXCEPT !.currentPlayerIndex = NoSeat])
    IN  IF state.phase = "decisions"
        THEN /\ last' = Plain("startDecisionPhase", FALSE)
             /\ UNCHANGED <<state, agentClients, betSweeps, decideSweeps, callers>>
        ELSE /\ processingCall(g1, agentClients) # NoSeat => Len(decideSweeps) < callers.decideSweeps
             /\ state' = processingStart(g1, agentClients)
             /\ decideSweeps' = withCall(decideSweeps, processingCall(g1, agentClients))
             /\ last' = Did("startDecisionPhase", NoSeat, 0, "none", TRUE, TRUE, settled,
                            IF settled THEN settleResults(g1) ELSE NoResults)
             /\ Called(state.phase = "dealing")
             /\ UNCHANGED <<agentClients, betSweeps>>

ProcessAllAgentDecisions ==
    /\ processingCall(state, agentClients) # NoSeat => Len(decideSweeps) < callers.decideSweeps
    /\ state' = processingStart(state, agentClients)
    /\ decideSweeps' = withCall(decideSweeps, processingCall(state, agentClients))
    /\ last' = Plain("processAllAgentDecisions",
                     state.phase = "decisions" /\ ~state.debug.decisionProcessingInProgress)
    /\ UNCHANGED <<agentClients, betSweeps, callers>>

ApplyPlayerAction(seat, action) ==
    LET settled == /\ actionAccepted(state, seat)
                   /\ LET g1 == actOn(state, seat, action)
                      IN  (g1.players[seat].isStanding \/ g1.players[seat].isBusted) /\ endsHand(g1)
    IN  /\ state' = applyPlayerAction(state, seat, action)
        /\ last' = Did("applyPlayerAction", seat, 0, action, actionAccepted(state, seat), TRUE,
                       settled, IF settled THEN settleResults(state') ELSE NoResults)
        /\ Called(state.phase = "decisions" \/ ~actionAccepted(state, seat))
        /\ UNCHANGED <<agentClients, betSweeps, decideSweeps>>

\* the reply to the decideStreaming call of sweep i arrives (or the call throws);
\* the loop of processAllAgentDecisions then calls the next agent or ends
DecideReply(i, reply) ==
    LET seat == decideSweeps[i].seat
        chatted == addChatMessage(state, seat,
                                  IF reply.ok THEN RationaleText(reply.len) ELSE StandFallbackText)
        action == IF reply.ok THEN reply.action ELSE fallbackAction
        g1 == applyDecideReply(state, seat, reply)
        settled == /\ actionAccepted(chatted, seat)
                   /\ LET g2 == actOn(chatted, seat, action)
                      IN  (g2.players[seat].isStanding \/ g2.players[seat].isBusted) /\ endsHand(g2)
    IN  /\ IF decisionLoopRuns(g1, agentClients)
           THEN /\ state' = g1
                /\ decideSweeps' = [decideSweeps EXCEPT ![i] = [seat |-> g1.currentPlayerIndex]]
           ELSE /\ state' = [g1 EXCEPT !.debug.decisionProcessingInProgress = FALSE]
                /\ decideSweeps' = removeAt(decideSweeps, i)
        /\ last' = Did("makeDecisionForAgent", seat, 0, action, actionAccepted(chatted, seat),
                       reply.ok, settled, IF settled THEN settleResults(g1) ELSE NoResults)
        /\ UNCHANGED <<agentClients, betSweeps, callers>>

PlayDealerHand ==
    /\ state' = playDealerHand(state)
    /\ last' = Plain("playDealerHand", TRUE)
    /\ Called(state.phase = "dealer")
    /\ UNCHANGED <<agentClients, betSweeps, decideSweeps>>

SettleHands ==
    /\ state' = settleHands(state)
    /\ last' = Did("settleHands", NoSeat, 0, "none", TRUE, TRUE, TRUE, settleResults(state))
    /\ Called(state.phase = "settling")
    /\ UNCHANGED <<agentClients, betSweeps, decideSweeps>>

Next ==
    \/ StartNewHand
    \/ ResetEntireGame
    \/ \E c \in callers.bets : PlaceBet(c[1], c[2])
    \/ AgentBets
    \/ \E i \in DOMAIN betSweeps, reply \in BetReplies :
           (reply.ok => reply.amount \in callers.agentBets) /\ BetReply(i, reply)
    \/ StartDealing
    \/ StartDecisionPhase
    \/ ProcessAllAgentDecisions
    \/ \E c \in callers.actions : ApplyPlayerAction(c[1], c[2])
    \/ \E i \in DOMAIN decideSweeps, reply \in DecideReplies : DecideReply(i, reply)
    \/ PlayDealerHand
    \/ SettleHands

Spec == Init /\ [][Next]_vars

\* One hand with a driver that starts the hand, bets and acts for the manual
\* seats and calls the operations that advance the phase; the agent gives any
\* reply.
LiveBetCalls == {<<1, 100>>, <<2, 5>>}
LiveActionCalls == {<<1, "hit">>, <<1, "stand">>, <<2, "stand">>}

LiveCallers ==
    [hands |-> 1, resets |-> FALSE, strays |-> 0,
     bets |-> LiveBetCalls, actions |-> LiveActionCalls, agentBets |-> AgentBetInputs,
     betSweeps |-> MaxBetSweeps, decideSweeps |-> MaxDecideSweeps]

LiveInit ==
    /\ \E seed \in Seeds : state = NewGameState(seed)
    /\ agentClients = {0}
    /\ betSweeps = <<>>
    /\ decideSweeps = <<>>
    /\ last = Plain("constructor", TRUE)
    /\ callers = LiveCallers

BetReplied == \E i \in DOMAIN betSweeps, reply \in BetReplies : BetReply(i, reply)
DecideReplied == \E i \in DOMAIN decideSweeps, reply \in DecideReplies : DecideReply(i, reply)

LiveNext ==
    \/ StartNewHand
    \/ \E c \in callers.bets : PlaceBet(c[1], c[2])
    \/ AgentBets
    \/ BetReplied
    \/ StartDealing
    \/ StartDecisionPhase
    \/ ProcessAllAgentDecisions
    \/ \E c \in callers.actions : ApplyPlayerAction(c[1], c[2])
    \/ DecideReplied

\* The driver keeps making each of its calls, a call that can advance the
\* hand is not put off forever, and every agent call resolves.
LiveSpec ==
    /\ LiveInit /\ [][LiveNext]_vars
    /\ WF_vars(StartNewHand)
    /\ \A c \in LiveBetCalls : WF_vars(PlaceBet(c[1], c[2]))
    /\ WF_vars(AgentBets)
    /\ WF_vars(BetReplied)
    /\ SF_vars(startDealingAllowed(state, agentClients) /\ StartDealing)
    /\ WF_vars(StartDecisionPhase)
    /\ SF_vars(processingCall(state, agentClients) # NoSeat /\ ProcessAllAgentDecisions)
    /\ \A s \in {1, 2} :
          SF_vars(state.phase = "decisions" /\ state.currentPlayerIndex = s
                  /\ ApplyPlayerAction(s, "stand"))
    /\ WF_vars(DecideReplied)

\* A table with agents at seats 0 and 1 and a manual seat 2, whose callers
\* keep to the phases but call the sweeps again while one is in flight.
RaceAgents == {0, 1}

RaceCallers ==
    [hands |-> MaxRaceHands, resets |-> FALSE, strays |-> 0,
     bets |-> {<<2, MinBet>>}, actions |-> {<<2, "stand">>}, agentBets |-> {MinBet},
     betSweeps |-> MaxRaceSweeps, decideSweeps |-> MaxRaceSweeps]

RaceInit ==
    /\ \E seed \in Seeds : state = NewGameState(seed)
    /\ agentClients = RaceAgents
    /\ betSweeps = <<>>
    /\ decideSweeps = <<>>
    /\ last = Plain("constructor", TRUE)
    /\ callers = RaceCallers

RaceNext ==
    \/ StartNewHand
    \/ \E c \in callers.bets : PlaceBet(c[1], c[2])
    \/ AgentBets
    \/ \E i \in DOMAIN betSweeps, reply \in BetReplies :
           (reply.ok => reply.amount \in callers.agentBets) /\ BetReply(i, reply)
    \/ \E i \in DOMAIN betSweeps : BetSweepResume(i)
    \/ StartDealing
    \/ StartDecisionPhase
    \/ ProcessAllAgentDecisions
    \/ \E c \in callers.actions : ApplyPlayerAction(c[1], c[2])
    \/ \E i \in DOMAIN decideSweeps, reply \in DecideReplies : DecideReply(i, reply)

RaceSpec == RaceInit /\ [][RaceNext]_vars

\* The rules as functions: a hand, or a player's and a dealer's hand, is
\* chosen and one of the rules functions is applied to it.
CardValues == 1..10
Hands == UNION {[1..n -> CardValues] : n \in 0..MaxHandLen}
ResultCards == {1, 5, 6, 9, 10}
ResultHands == UNION {[1..n -> ResultCards] : n \in 2..MaxResultLen}

RulesCallers ==
    [hands |-> 0, resets |-> FALSE, strays |-> 0, bets |-> {}, actions |-> {},
     agentBets |-> {}, betSweeps |-> 0, decideSweeps |-> 0]

RulesInit ==
    /\ \E seed \in Seeds : state = NewGameState(seed)
    /\ agentClients = {}
    /\ betSweeps = <<>>
    /\ decideSweeps = <<>>
    /\ callers = RulesCallers
    /\ \/ \E h \in Hands :
             last = [op |-> "hand", cards |-> h, dealer |-> <<>>, result |-> "none"]
       \/ \E p \in ResultHands, d \in ResultHands :
             last = [op |-> "hands", cards |-> p, dealer |-> d, result |-> "none"]

CalculateHandValue ==
    /\ last.op = "hand"
    /\ last' = [last EXCEPT !.op = "calculateHandValue", !.result = calculateHandValue(last.cards)]
    /\ UNCHANGED <<state, agentClients, betSweeps, decideSweeps, callers>>

ShouldDealerHit ==
    /\ last.op = "hand"
    /\ last' = [last EXCEPT !.op = "shouldDealerHit", !.result = shouldDealerHit(last.cards)]
    /\ UNCHANGED <<state, agentClients, betSweeps, decideSweeps, callers>>

DetermineHandResult ==
    /\ last.op = "hands"
    /\ last' = [last EXCEPT !.op = "determineHandResult",
                            !.result = determineHandResult(last.cards, last.dealer)]
    /\ UNCHANGED <<state, agentClients, betSweeps, decideSweeps, callers>>

RulesNext == CalculateHandValue \/ ShouldDealerHit \/ DetermineHandResult

RulesSpec == RulesInit /\ [][RulesNext]_vars

\* One hand at a table whose manual seats bet 25 and 20 of their starting
\* bankroll of 100 and whose agent bets the minimum.
PayoutBetCalls == {<<1, 25>>, <<2, 20>>}
PayoutActionCalls == {<<1, "hit">>, <<1, "stand">>, <<2, "stand">>}

PayoutCallers ==
    [hands |-> 1, resets |-> FALSE, strays |-> 0,
     bets |-> PayoutBetCalls, actions |-> PayoutActionCalls, agentBets |-> {MinBet},
     betSweeps |-> MaxBetSweeps, decideSweeps |-> MaxDecideSweeps]

PayoutInit ==
    /\ \E seed \in Seeds : state = NewGameState(seed)
    /\ agentClients = {0}
    /\ betSweeps = <<>>
    /\ decideSweeps = <<>>
    /\ last = Plain("constructor", TRUE)
    /\ callers = PayoutCallers

PayoutNext ==
    \/ StartNewHand
    \/ \E c \in callers.bets : PlaceBet(c[1], c[2])
    \/ AgentBets
    \/ \E i \in DOMAIN betSweeps, reply \in BetReplies :
           (reply.ok => reply.amount \in callers.agentBets) /\ BetReply(i, reply)
    \/ StartDealing
    \/ StartDecisionPhase
    \/ ProcessAllAgentDecisions
    \/ \E c \in callers.actions : ApplyPlayerAction(c[1], c[2])
    \/ \E i \in DOMAIN decideSweeps, reply \in DecideReplies : DecideReply(i, reply)

PayoutSpec == PayoutInit /\ [][PayoutNext]_vars

\* The shoe as an object: the table's shoe, which startNewHand reshuffles, and
\* a second shoe of any seed beside it; cards are drawn from either and the
\* second is reset.  last holds the second shoe and what the last call returned.
ShoeCallers ==
    [hands |-> MaxShoeHands, resets |-> FALSE, strays |-> 0, bets |-> {}, actions |-> {},
     agentBets |-> {}, betSweeps |-> 0, decideSweeps |-> 0]

ShoeInit ==
    /\ \E seed \in ShoeSeeds : state = NewGameState(seed)
    /\ agentClients = {}
    /\ betSweeps = <<>>
    /\ decideSweeps = <<>>
    /\ callers = ShoeCallers
    /\ \E seed \in ShoeSeeds :
          last = [op |-> "constructor", shoe |-> NewShoe(seed), card |-> NoCard, resets |-> 0]

\* state.shoe.draw()
ShoeDraw ==
    /\ state' = [state EXCEPT !.shoe = afterDraw(@)]
    /\ last' = [last EXCEPT !.op = "draw", !.card = drawnCard(state.shoe)]
    /\ UNCHANGED <<agentClients, betSweeps, decideSweeps, callers>>

\* draw() on the second shoe
ShoeDrawOther ==
    /\ last' = [last EXCEPT !.op = "drawOther", !.card = drawnCard(last.shoe),
                            !.shoe = afterDraw(@)]
    /\ UNCHANGED <<state, agentClients, betSweeps, decideSweeps, callers>>

\* reset(4) on the second shoe
ShoeResetOther ==
    /\ last.resets < MaxShoeResets
    /\ last' = [last EXCEPT !.op = "reset", !.card = NoCard, !.shoe = ShoeReset(@),
                            !.resets = @ + 1]
    /\ UNCHANGED <<state, agentClients, betSweeps, decideSweeps, callers>>

ShoeStartNewHand ==
    /\ state.handNumber < callers.hands
    /\ state' = startNewHand(state)
    /\ last' = [last EXCEPT !.op = "startNewHand", !.card = NoCard]
    /\ UNCHANGED <<agentClients, betSweeps, decideSweeps, callers>>

ShoeNext == ShoeDraw \/ ShoeDrawOther \/ ShoeResetOther \/ ShoeStartNewHand

ShoeSpec == ShoeInit /\ [][ShoeNext]_vars

\* A hand that starts late in the shoe.  startNewHand leaves a shoe with as few
\* as 20 of its 208 cards, fewer than the deal and the hits of one hand can
\* draw; in the 20-card shoe of the model the hand starts with some of the
\* cards already drawn.  The driver bets and acts for the manual seats and
\* calls the operations that advance the phase; the agent answers hit or
\* stand, or its call fails.
ExhaustDealt == {0, 2, 10, 11, MaxExhaustDealt}
ExhaustBetCalls == {<<1, MinBet>>, <<2, MinBet>>}
ExhaustActionCalls == {<<1, "hit">>, <<1, "stand">>, <<2, "hit">>, <<2, "stand">>}
ExhaustDecideReplies == {reply \in DecideReplies : reply.action \in {"none", "hit", "stand"}}

ExhaustCallers ==
    [hands |-> 1, resets |-> FALSE, strays |-> 0,
     bets |-> ExhaustBetCalls, actions |-> ExhaustActionCalls, agentBets |-> {MinBet},
     betSweeps |-> MaxBetSweeps, decideSweeps |-> MaxDecideSweeps]

ExhaustInit ==
    /\ \E seed \in Seeds, dealt \in ExhaustDealt :
          state = [startNewHand(NewGameState(seed)) EXCEPT !.shoe.dealt = dealt]
    /\ agentClients = {0}
    /\ betSweeps = <<>>
    /\ decideSweeps = <<>>
    /\ last = Plain("startNewHand", TRUE)
    /\ callers = ExhaustCallers

ExhaustBetReplied ==
    \E i \in DOMAIN betSweeps, reply \in BetReplies :
        (reply.ok => reply.amount \in callers.agentBets) /\ BetReply(i, reply)

ExhaustDecideReplied ==
    \E i \in DOMAIN decideSweeps, reply \in ExhaustDecideReplies : DecideReply(i, reply)

ExhaustNext ==
    \/ \E c \in callers.bets : PlaceBet(c[1], c[2])
    \/ AgentBets
    \/ ExhaustBetReplied
    \/ StartDealing
    \/ StartDecisionPhase
    \/ ProcessAllAgentDecisions
    \/ \E c \in callers.actions : ApplyPlayerAction(c[1], c[2])
    \/ ExhaustDecideReplied

\* The driver keeps making each of its calls, a call that can advance the
\* hand is not put off forever, and every agent call resolves: a reply to a
\* decide call can arrive exactly when a call is in flight, and replies keep
\* arriving (weak fairness of the replies, with its enabling condition
\* written out).
ExhaustSpec ==
    /\ ExhaustInit /\ [][ExhaustNext]_vars
    /\ \A c \in ExhaustBetCalls : WF_vars(PlaceBet(c[1], c[2]))
    /\ WF_vars(AgentBets)
    /\ WF_vars(ExhaustBetReplied)
    /\ SF_vars(startDealingAllowed(state, agentClients) /\ StartDealing)
    /\ WF_vars(state.phase = "dealing" /\ StartDecisionPhase)
    /\ SF_vars(processingCall(state, agentClients) # NoSeat /\ ProcessAllAgentDecisions)
    /\ \A s \in {1, 2} :
          SF_vars(state.phase = "decisions" /\ state.currentPlayerIndex = s
                  /\ ApplyPlayerAction(s, "stand"))
    /\ ([]<>(decideSweeps = <<>>) \/ []<><<ExhaustDecideReplied>>_vars)

\* One call of an agent over HTTP.  last holds the call: its endpoint, the
\* retries it has left, where it stands and how each attempt ended.  An error
\* is its name and the words of its message.
AgentEndpoints == {"/place_bet", "/table_talk", "/decide"}

\* the body of an agent's error response, as the words in it
ErrorBodies == {{}, {"fetch"}}
\* the message of an error thrown by response.json() or schema.parse, which
\* may quote the reply
ParseMessages == {{"invalid"}, {"invalid", "fetch"}}

NoErrorThrown == [name |-> "none", words |-> {}]
AbortError == [name |-> "AbortError", words |-> {"aborted"}]
FetchFailed == [name |-> "TypeError", words |-> {"fetch", "failed"}]
\* new Error(`HTTP ${status}: ${statusText} - ${errorText}`)
httpError(errorText) == [name |-> "Error", words |-> {"HTTP"} \cup errorText]

\* how one attempt ends: the kind of its end and the error it catches
AttemptOutcomes ==
    {[kind |-> "ok", error |-> NoErrorThrown],
     [kind |-> "timeout", error |-> AbortError],
     [kind |-> "network", error |-> FetchFailed]}
    \cup {[kind |-> "http", error |-> httpError(body)] : body \in ErrorBodies}
    \cup {[kind |-> "json", error |-> [name |-> "SyntaxError", words |-> m]] : m \in ParseMessages}
    \cup {[kind |-> "schema", error |-> [name |-> "ZodError", words |-> m]] : m \in ParseMessages}

\* error.message.includes('fetch')
messageIncludesFetch(error) == "fetch" \in error.words

\* the catch block takes the retry
agentCallRetries(retryCount, error) ==
    retryCount > 0 /\ (error.name = "AbortError" \/ messageIncludesFetch(error))

\* what the catch block throws when it does not retry
agentCallThrows(error) ==
    IF error.name = "AbortError"
    THEN [name |-> "Error", words |-> {"Request", "timeout"}]
    ELSE error

AgentCallCallers ==
    [hands |-> 0, resets |-> FALSE, strays |-> 0, bets |-> {}, actions |-> {},
     agentBets |-> {}, betSweeps |-> 0, decideSweeps |-> 0]

AgentCallInit ==
    /\ \E seed \in Seeds : state = NewGameState(seed)
    /\ agentClients = {0}
    /\ betSweeps = <<>>
    /\ decideSweeps = <<>>
    /\ callers = AgentCallCallers
    /\ \E endpoint \in AgentEndpoints :
          last = [op |-> "agentCall", endpoint |-> endpoint, retryCount |-> 1, pc |-> "fetch",
                  attempts |-> <<>>, thrown |-> NoErrorThrown]

\* one attempt of agentCall from its fetch to its return, its throw or the
\* start of the delay before the retry
AgentCallAttempt(outcome) ==
    /\ last.pc = "fetch"
    /\ last' = [last EXCEPT
                   !.attempts = Append(@, outcome),
                   !.pc = IF outcome.kind = "ok" THEN "returned"
                          ELSE IF agentCallRetries(last.retryCount, outcome.error) THEN "delay"
                          ELSE "thrown",
                   !.thrown = IF outcome.kind = "ok" \/ agentCallRetries(last.retryCount, outcome.error)
                              THEN @
                              ELSE agentCallThrows(outcome.error)]
    /\ UNCHANGED <<state, agentClients, betSweeps, decideSweeps, callers>>

\* after the delay of one second: agentCall(endpoint, body, timeoutMs, schema, retryCount - 1)
AgentCallRetry ==
    /\ last.pc = "delay"
    /\ last' = [last EXCEPT !.retryCount = @ - 1, !.pc = "fetch"]
    /\ UNCHANGED <<state, agentClients, betSweeps, decideSweeps, callers>>

AgentCallNext ==
    \/ \E outcome \in AttemptOutcomes : AgentCallAttempt(outcome)
    \/ AgentCallRetry

AgentCallSpec == AgentCallInit /\ [][AgentCallNext]_vars

---------------------------------------------------------------------------
(* Properties *)

\* C1: the hand that startNewHand has started reaches the phase finished
HandFinishes == (state.phase = "betting") ~> (state.phase = "finished")

\* the last entry of the chat log is this text from this seat
lastChatIs(g, seat, text) ==
    g.chat # <<>> /\ g.chat[Len(g.chat)] = [from |-> seat, text |-> text]

\* C2: in every reachable state every seat's bankroll and escrowed bet are >= 0
NonNegativeMoney ==
    \A s \in Seats : state.players[s].bankroll >= 0 /\ state.players[s].bet >= 0

\* a seat has lost its whole bankroll and its bets are now refused for it
BrokeSeatRefused ==
    \E s \in Seats :
        /\ state.players[s].bankroll = 0 /\ state.players[s].bet = 0
        /\ state.phase = "betting"
        /\ last.op = "placeBet" /\ last.seat = s /\ last.amount = MaxBet /\ ~last.ok

\* C3: a step inside one betting phase keeps bankroll + bet of every seat, and
\* a placement that succeeded with amount a leaves the seat's bet at a
BetsReplaceBets ==
    [][/\ (state.phase = "betting" /\ state'.phase = "betting"
            /\ state'.handNumber = state.handNumber)
           => \A s \in Seats :
                 state'.players[s].bankroll + state'.players[s].bet
                     = state.players[s].bankroll + state.players[s].bet
       /\ (last'.op \in {"placeBet", "placeBetForAgent"} /\ last'.ok)
           => /\ state'.players[last'.seat].bet = last'.amount
              /\ state'.players[last'.seat].bankroll
                     = state.players[last'.seat].bankroll + state.players[last'.seat].bet
                       - last'.amount]_vars

\* a manual bet has replaced the bet the agent of seat 0 had placed
AgentBetReplaced ==
    /\ state.phase = "betting"
    /\ last.op = "placeBet" /\ last.ok /\ last.seat = 0 /\ last.amount = 0
    /\ state.debug.bettingCompletion[0] = MaxBet
    /\ state.players[0].bet = 0 /\ state.players[0].bankroll = StartBankroll

\* C4: once a hand is settled (phase finished), no operation other than the
\* start of a new hand or game changes a bankroll: a hand is credited once
SettledOnce ==
    [][(state.phase = "finished" /\ last'.op \notin {"startNewHand", "resetEntireGame"})
       => \A s \in Seats : state'.players[s].bankroll = state.players[s].bankroll]_vars

\* floor(1.5 * b)
blackjackPayout(b) == (3 * b) \div 2

\* the amount settlement adds to the bankroll of a seat with bet b
expectedCredit(result, twoCardBlackjack, b) ==
    CASE result = "win" -> b + (IF twoCardBlackjack THEN blackjackPayout(b) ELSE b)
      [] result = "lose" -> 0
      [] result = "push" -> b

\* C5: a step that settles reports for every seat the result of
\* determineHandResult on the final cards, adds b + payout for a win (payout b,
\* or floor(1.5 b) for a two-card blackjack), nothing for a loss, b for a
\* push, and leaves the phase finished
SettlementPays ==
    [][last'.settled =>
          /\ state'.phase = "finished"
          /\ \A s \in Seats :
                LET cards == state'.players[s].cards
                    b == state'.players[s].bet
                    result == determineHandResult(cards, state'.dealer.cards)
                    blackjack == Len(cards) = 2 /\ calculateHandValue(cards) = 21
                IN  /\ last'.results[s].result = result
                    /\ last'.results[s].payout
                           = (IF result = "win"
                              THEN (IF blackjack THEN blackjackPayout(b) ELSE b) ELSE 0)
                    /\ state'.players[s].bankroll
                           = state.players[s].bankroll + expectedCredit(result, blackjack, b)]_vars

\* a settled hand with a blackjack paid 7 on a bet of 5, a push and a loss
SettledAllResults ==
    /\ last.settled /\ state.phase = "finished"
    /\ \E s \in Seats : /\ last.results[s].result = "win"
                         /\ isBlackjack(state.players[s].cards)
                         /\ state.players[s].bet = 5 /\ last.results[s].payout = 7
                         /\ state.players[s].bankroll = StartBankroll + 7
    /\ \E s \in Seats : last.results[s].result = "push" /\ state.players[s].bet > 0
    /\ \E s \in Seats : last.results[s].result = "lose" /\ state.players[s].bet > 0

\* C6: startDealing succeeds only from betting, to dealing, and only when
\* every seat holds a bet b with 5 <= b <= 100
DealingNeedsBets ==
    [][(last'.op = "startDealing" /\ last'.ok)
       => /\ state.phase = "betting" /\ state'.phase = "dealing"
          /\ \A s \in Seats : MinBet <= state.players[s].bet /\ state.players[s].bet <= MaxBet]_vars

\* the reply of an agent that is not a valid bet for the seat in g
invalidBetReply(g, seat, replied, amount) ==
    \/ ~replied
    \/ amount < 0
    \/ amount > MaxBet
    \/ amount > g.players[seat].bankroll + g.players[seat].bet
    \/ amount < MinBet

\* C7: when an agent's bet reply arrives in the betting phase and has failed or
\* carries an invalid amount, the seat's bet is then exactly 5 and the last chat
\* line is a fallback line of that seat
AgentFallbackBet ==
    [][(/\ last'.op = "placeBetForAgent"
        /\ state.phase = "betting"
        /\ invalidBetReply(state, last'.seat, last'.replied, last'.amount))
       => /\ state'.players[last'.seat].bet = MinBet
          /\ \/ lastChatIs(state', last'.seat, BetFallbackText)
             \/ lastChatIs(state', last'.seat, BetErrorText)]_vars

table(g) ==
    <<g.phase, [s \in Seats |-> <<g.players[s].cards, g.players[s].bet, g.players[s].bankroll>>],
      g.dealer, g.shoe>>

validPhase(op) ==
    CASE op \in {"placeBet", "placeBetsForAllAgents", "startDealing"} -> "betting"
      [] op = "startDecisionPhase" -> "dealing"
      [] op \in {"applyPlayerAction", "processAllAgentDecisions"} -> "decisions"
      [] op = "playDealerHand" -> "dealer"
      [] op = "settleHands" -> "settling"
      [] OTHER -> "any"

\* C9: an operation called outside its phase leaves the phase, the hands, the
\* bets, the bankrolls, the dealer and the shoe unchanged
OutOfPhaseRejected ==
    [][(validPhase(last'.op) \notin {"any", state.phase}) => table(state') = table(state)]_vars

\* C10: placeBet with a negative amount, one above 100, one above bankroll +
\* bet, or an unknown seat returns false and changes no bet and no bankroll;
\* in the betting phase an amount equal to the cap or to the available balance,
\* and not above the other, is accepted
PlaceBetLimits ==
    [][last'.op = "placeBet" =>
          LET seat == last'.seat
              amount == last'.amount
              available == state.players[seat].bankroll + state.players[seat].bet
          IN  /\ (seat \notin Seats \/ amount < 0 \/ amount > MaxBet \/ amount > available)
                  => /\ ~last'.ok
                     /\ \A s \in Seats :
                           /\ state'.players[s].bet = state.players[s].bet
                           /\ state'.players[s].bankroll = state.players[s].bankroll
              /\ (/\ seat \in Seats /\ state.phase = "betting"
                  /\ amount \in {MaxBet, available}
                  /\ 0 <= amount /\ amount <= MaxBet /\ amount <= available)
                  => last'.ok /\ state'.players[seat].bet = amount]_vars

\* a bet of the whole bankroll, which is also the cap, has been accepted, and
\* a bet above the cap has then been refused
CapAcceptedThenRefused ==
    \E s \in Seats :
        /\ state.phase = "betting"
        /\ last.op = "placeBet" /\ last.seat = s /\ last.amount = MaxBet + 1 /\ ~last.ok
        /\ state.players[s].bet = MaxBet /\ state.players[s].bankroll = 0

\* the setPhase calls of the step that last describes, in the order made
\* (resetEntireGame replaces the state by one in phase waiting)
phasesSet(l) ==
    LET ending == IF l.settled THEN <<"dealer", "settling", "finished">> ELSE <<>>
    IN  CASE l.op = "startNewHand" -> <<"betting">>
          [] l.op = "resetEntireGame" -> <<"waiting">>
          [] l.op = "startDealing" /\ l.ok -> <<"dealing">>
          [] l.op = "startDecisionPhase" /\ l.ok -> <<"decisions">> \o ending
          [] l.op \in {"applyPlayerAction", "makeDecisionForAgent"} -> ending
          [] l.op = "playDealerHand" -> <<"settling">>
          [] l.op = "settleHands" -> <<"finished">>
          [] OTHER -> <<>>

\* the phase after p in the linear order
nextPhase(p) ==
    CASE p = "waiting" -> "betting"
      [] p = "betting" -> "dealing"
      [] p = "dealing" -> "decisions"
      [] p = "decisions" -> "dealer"
      [] p = "dealer" -> "settling"
      [] p = "settling" -> "finished"
      [] p = "finished" -> "betting"

\* C11: every phase change made by an operation other than startNewHand and
\* resetEntireGame moves the phase to its immediate successor in the order
\* waiting, betting, dealing, decisions, dealer, settling, finished, betting
LinearPhases ==
    [][last'.op \notin {"startNewHand", "resetEntireGame"}
       => LET set == phasesSet(last')
          IN  \A k \in 1..Len(set) :
                 set[k] = nextPhase(IF k = 1 THEN state.phase ELSE set[k - 1])]_vars

\* the seat has resolved: it stands, is busted or holds 21 or more
resolved(g, s) ==
    \/ g.players[s].isStanding
    \/ g.players[s].isBusted
    \/ calculateHandValue(g.players[s].cards) >= 21

\* C12: when an operation other than the start of a new hand or game takes the
\* phase out of decisions, every seat has resolved
DecisionsEndResolved ==
    [][(/\ state.phase = "decisions" /\ state'.phase # "decisions"
        /\ last'.op \notin {"startNewHand", "resetEntireGame"})
       => \A s \in Seats : resolved(state', s)]_vars

\* C13: at most one processAllAgentDecisions loop is active at any time
OneDecisionSweep == Len(decideSweeps) <= 1

\* C14: at most one agent bet call is in flight at any time
OneBetCallInFlight ==
    Cardinality({i \in DOMAIN betSweeps : betSweeps[i].pc = "reply"}) <= 1

\* the seats of the sequence are in increasing order
ascending(seq) == \A j, k \in DOMAIN seq : j < k => seq[j] < seq[k]

\* C15: a sweep starts with the call for the lowest agent seat and has all
\* agent seats before it in increasing order; when a reply is applied the
\* seat's completion and chat line are recorded and the sweep has no call in
\* flight; the call for the next seat is issued by a later step, for the
\* lowest seat the sweep has left
SweepInSeatOrder ==
    [][/\ (last'.op = "placeBetsForAllAgents" /\ Len(betSweeps') > Len(betSweeps))
           => LET sweep == betSweeps'[Len(betSweeps')]
              IN  /\ sweep.pc = "reply"
                  /\ {sweep.todo[k] : k \in DOMAIN sweep.todo} = agentClients
                  /\ ascending(sweep.todo)
       /\ last'.op = "placeBetForAgent"
           => LET seat == last'.seat
              IN  /\ state'.debug.bettingCompletion[seat] # NotCompleted
                  /\ state'.chat # <<>> /\ state'.chat[Len(state'.chat)].from = seat
                  /\ \E i \in DOMAIN betSweeps :
                        /\ betSweeps[i].pc = "reply" /\ Head(betSweeps[i].todo) = seat
                        /\ ascending(betSweeps[i].todo)
                        /\ IF Len(betSweeps[i].todo) = 1
                           THEN Len(betSweeps') = Len(betSweeps) - 1
                           ELSE betSweeps'[i] = [todo |-> Tail(betSweeps[i].todo), pc |-> "pause"]
       /\ (last'.op = "placeBetForAgent.call" /\ last'.ok)
           => \E i \in DOMAIN betSweeps :
                 /\ betSweeps[i].pc = "pause" /\ betSweeps'[i].pc = "reply"
                 /\ Head(betSweeps'[i].todo) = last'.seat
                 /\ \A k \in DOMAIN betSweeps'[i].todo : last'.seat <= betSweeps'[i].todo[k]]_vars

\* the reply of seat 1 has been applied after that of seat 0, in one hand
SecondSeatAfterFirst ==
    /\ state.phase = "betting"
    /\ last.op = "placeBetForAgent" /\ last.seat = 1
    /\ state.debug.bettingCompletion[0] # NotCompleted
    /\ state.debug.bettingCompletion[1] # NotCompleted
    /\ state.players[0].bet = MinBet /\ state.players[1].bet = MinBet
    /\ betSweeps = <<>>

\* C16: the request built for the agent of seat s when its decide call is
\* issued does not carry, for another seat that holds cards, that seat's full
\* hand (what that seat's own private view holds as myHoleCards)
OthersCardsHidden ==
    [][Len(decideSweeps') > Len(decideSweeps)
       => LET s == decideSweeps'[Len(decideSweeps')].seat
              io == buildAgentIO(state', s, "decision")
          IN  \A t \in Seats \ {s} :
                 state'.players[t].cards # <<>>
                 => io.public.players[t].visibleCards # getPrivateInfo(state', t).myHoleCards]_vars

\* the cards dealt in the current hand, and the place of the dealer's second
\* card in the shoe after an initial deal
cardsInHands(g) ==
    Len(g.dealer.cards) + Len(g.players[0].cards) + Len(g.players[1].cards)
        + Len(g.players[2].cards)

holePlace(g) == g.shoe.dealt - cardsInHands(g) + Len(DealOrder)

\* g with another card c dealt to the dealer as second card
withDealerHole(g, c) ==
    [g EXCEPT !.dealer.cards[2] = c, !.shoe.cards[holePlace(g)] = c]

RECURSIVE hardTotal(_)
hardTotal(cards) == IF cards = <<>> THEN 0 ELSE Head(cards) + hardTotal(Tail(cards))

acesIn(cards) == Cardinality({i \in DOMAIN cards : cards[i] = 1})

\* one ace counts 11 without the hand going over 21
isSoft(cards) == acesIn(cards) > 0 /\ hardTotal(cards) + 10 <= 21

\* the best total: the highest not above 21 with each ace as 1 or 11 when
\* there is one, otherwise the total with every ace as 1
bestTotal(cards) ==
    LET totals == {hardTotal(cards) + 10 * k : k \in 0..acesIn(cards)}
        good == {t \in totals : t <= 21}
    IN  IF good # {} THEN CHOOSE t \in good : \A u \in good : u <= t ELSE hardTotal(cards)

\* C18: shouldDealerHit is true exactly when the hand is below 17 or is a
\* soft 17 (17 with an ace counted as 11)
DealerHitsBelowOrSoft17 ==
    last.op = "shouldDealerHit"
    => last.result = (\/ bestTotal(last.cards) < 17
                      \/ bestTotal(last.cards) = 17 /\ isSoft(last.cards))

\* a two-card hand of 21
twoCard21(cards) == Len(cards) = 2 /\ bestTotal(cards) = 21

\* the result the order of C19 gives
resultInOrder(p, d) ==
    IF bestTotal(p) > 21 THEN "lose"
    ELSE IF bestTotal(d) > 21 THEN "win"
    ELSE IF twoCard21(p) /\ twoCard21(d) THEN "push"
    ELSE IF twoCard21(p) THEN "win"
    ELSE IF twoCard21(d) THEN "lose"
    ELSE IF bestTotal(p) > bestTotal(d) THEN "win"
    ELSE IF bestTotal(p) < bestTotal(d) THEN "lose"
    ELSE "push"

\* C19: determineHandResult decides player bust, dealer bust, both blackjack,
\* one blackjack, then the totals, in this order
ResultInOrder ==
    last.op = "determineHandResult" => last.result = resultInOrder(last.cards, last.dealer)

\* both hands are bust and the player has lost
BothBustLoses ==
    /\ last.op = "determineHandResult" /\ last.result = "lose"
    /\ bestTotal(last.cards) > 21 /\ bestTotal(last.dealer) > 21

\* the permutations of 1..n
orderings(n) == {f \in [1..n -> 1..n] : \A i, j \in 1..n : f[i] = f[j] => i = j}

\* C20: calculateHandValue gives the best total, and gives it for every
\* permutation of the cards
ValueOfAnyOrder ==
    last.op = "calculateHandValue"
    => /\ last.result = bestTotal(last.cards)
       /\ \A f \in orderings(Len(last.cards)) :
             calculateHandValue([i \in 1..Len(last.cards) |-> last.cards[f[i]]]) = last.result

\* a hand with two aces around a ten is 12
TwoAcesAndTen ==
    last.op = "calculateHandValue" /\ last.cards = <<1, 10, 1>> /\ last.result = 12

\* C21: two shoes constructed or reset with the same seed hold the same
\* number of cards and return the same card at every position of the draw
\* sequence, up to the draw that finds them exhausted
SameSeedSameDraws ==
    state.shoe.seed = last.shoe.seed =>
        /\ Len(state.shoe.cards) = Len(last.shoe.cards)
        /\ \A k \in 0..Len(state.shoe.cards) :
              drawnCard([state.shoe EXCEPT !.dealt = k]) = drawnCard([last.shoe EXCEPT !.dealt = k])

\* a second shoe that was drawn from, reset and drawn out beside a table shoe
\* of the same seed that is drawn out too
ResetShoeDrawnOut ==
    /\ state.shoe.seed = last.shoe.seed
    /\ last.op = "drawOther" /\ last.resets > 0 /\ last.card # NoCard
    /\ getCardsRemaining(last.shoe) = 0
    /\ getCardsRemaining(state.shoe) = 0

\* the counters of a shoe: 0 <= dealt <= total, penetration dealt/total within
\* [0, 1], remaining = total - dealt and not negative
shoeCounted(shoe) ==
    /\ 0 <= shoe.dealt /\ shoe.dealt <= Len(shoe.cards)
    /\ getPenetration(shoe)[2] > 0
    /\ 0 <= getPenetration(shoe)[1] /\ getPenetration(shoe)[1] <= getPenetration(shoe)[2]
    /\ getPenetration(shoe)[1] * Len(shoe.cards) = shoe.dealt * getPenetration(shoe)[2]
    /\ getCardsRemaining(shoe) = Len(shoe.cards) - shoe.dealt
    /\ getCardsRemaining(shoe) >= 0

\* draw on a shoe: none and no change exactly when dealt = total, otherwise
\* the card at position dealt and dealt advanced by one
drewFrom(before, after, card) ==
    IF before.dealt = Len(before.cards)
    THEN card = NoCard /\ after = before
    ELSE /\ card # NoCard
         /\ card = before.cards[before.dealt + 1]
         /\ after = [before EXCEPT !.dealt = before.dealt + 1]

\* C22, as the code has it: the counters of both shoes stay within their
\* limits, draw returns none without a change exactly when dealt = total and
\* otherwise the card at position dealt while dealt advances by one, and dealt
\* decreases at no step but a reset or a reshuffle, which sets it to 0
ShoeCounters ==
    [][/\ shoeCounted(state.shoe) /\ shoeCounted(last.shoe)
       /\ shoeCounted(state'.shoe) /\ shoeCounted(last'.shoe)
       /\ last'.op = "draw" => drewFrom(state.shoe, state'.shoe, last'.card)
       /\ last'.op = "drawOther" => drewFrom(last.shoe, last'.shoe, last'.card)
       /\ state'.shoe.dealt < state.shoe.dealt =>
              last'.op = "startNewHand" /\ state'.shoe.dealt = 0
       /\ last'.shoe.dealt < last.shoe.dealt => last'.op = "reset" /\ last'.shoe.dealt = 0
      ]_vars

\* a draw on the exhausted table shoe returned none
DrawFromExhausted ==
    /\ last.op = "draw" /\ last.card = NoCard
    /\ state.shoe.dealt = Len(state.shoe.cards)
    /\ getPenetration(state.shoe)[1] = getPenetration(state.shoe)[2]

\* C22, as stated: across any sequence of shoe operations dealt never decreases
DealtNeverDecreases ==
    [][state'.shoe.dealt >= state.shoe.dealt /\ last'.shoe.dealt >= last.shoe.dealt]_vars

\* C23: startNewHand reshuffles exactly when fewer than 20 cards remain; the
\* reshuffled shoe is the full population with dealt = 0 in an order that is
\* not the order of the shoe it replaces; with 20 or more cards left the shoe
\* is untouched
ReshuffleFreshOrder ==
    [][last'.op = "startNewHand" =>
          IF getCardsRemaining(state.shoe) < ReshuffleThreshold
          THEN /\ state'.shoe.dealt = 0
               /\ Len(state'.shoe.cards) = Len(Population)
               /\ \A c \in 1..10 :
                     Cardinality({k \in DOMAIN state'.shoe.cards : state'.shoe.cards[k] = c})
                       = Cardinality({k \in DOMAIN Population : Population[k] = c})
               /\ state'.shoe.cards # state.shoe.cards
          ELSE state'.shoe = state.shoe
      ]_vars

\* C24: every entry of the chat log has a text of at most 160 characters
ChatWithinLimit ==
    \A i \in DOMAIN state.chat : state.chat[i].text.len <= ChatMaxLen

\* a rationale of 240 characters stands in the log cut to 160
LongRationaleCut ==
    /\ last.op \in {"placeBetForAgent", "makeDecisionForAgent"} /\ last.replied
    /\ \E i \in DOMAIN state.chat :
          state.chat[i].text = [kind |-> "rationale", len |-> ChatMaxLen]

\* C25, as the code has it: startNewHand adds exactly 1 to the hand number,
\* resetEntireGame sets it to 0 and no other operation changes it
HandNumberCounts ==
    [][/\ last'.op = "startNewHand" => state'.handNumber = state.handNumber + 1
       /\ last'.op = "resetEntireGame" => state'.handNumber = 0
       /\ last'.op \notin {"startNewHand", "resetEntireGame"} =>
              state'.handNumber = state.handNumber
      ]_vars

\* the second hand of a table has been started
SecondHandStarted == last.op = "startNewHand" /\ state.handNumber = 2

\* C25, as stated: the hand number never decreases, increases by exactly 1 at
\* each startNewHand and is changed by no other operation
HandNumberNeverDecreases ==
    [][/\ state'.handNumber >= state.handNumber
       /\ last'.op = "startNewHand" => state'.handNumber = state.handNumber + 1
       /\ last'.op # "startNewHand" => state'.handNumber = state.handNumber
      ]_vars

\* C26: a seat that is busted is standing, and its hand is worth more than 21
BustedStands ==
    \A s \in Seats :
        state.players[s].isBusted =>
            state.players[s].isStanding /\ calculateHandValue(state.players[s].cards) > 21

\* a hit has busted a seat
SeatBusted ==
    \E s \in Seats :
        /\ state.players[s].isBusted
        /\ state.players[s].lastAction = "hit"

\* the seat settles the first time in a hand it began with the starting
\* bankroll and bet b in: b is in escrow, the rest in the bankroll
settlesBet(s, b) ==
    /\ last'.settled
    /\ state.phase # "finished"
    /\ state.players[s].bet = b
    /\ state.players[s].bankroll = StartBankroll - b

\* C27, as the code has it: a seat that starts a hand with bankroll 100, bets
\* 25 and wins without a blackjack has bankroll 125 after settlement (75 kept,
\* the bet of 25 returned, 25 paid)
RegularWin125 ==
    [][\A s \in Seats :
          /\ settlesBet(s, 25)
          /\ last'.results[s].result = "win"
          /\ ~isBlackjack(state'.players[s].cards)
          => last'.results[s].payout = 25 /\ state'.players[s].bankroll = 125
      ]_vars

\* a seat that bet 25 of 100 won with 21 in three cards and holds 125
RegularWinPaid ==
    /\ last.settled
    /\ \E s \in Seats :
          /\ state.players[s].bet = 25
          /\ last.results[s].result = "win"
          /\ Len(state.players[s].cards) = 3
          /\ last.results[s].payout = 25
          /\ state.players[s].bankroll = 125

\* C27, as stated: a seat that starts a hand with bankroll 100, bets 25 and
\* wins without a blackjack has bankroll 150 after settlement
RegularWin150 ==
    [][\A s \in Seats :
          /\ settlesBet(s, 25)
          /\ last'.results[s].result = "win"
          /\ ~isBlackjack(state'.players[s].cards)
          => state'.players[s].bankroll = 150
      ]_vars

\* C28, as the code has it: a seat that starts a hand with bankroll 100, bets
\* 20 and wins with a two-card blackjack is paid floor(20 * 1.5) = 30 and has
\* bankroll 130 after settlement (80 kept, the bet of 20 returned, 30 paid)
BlackjackWin130 ==
    [][\A s \in Seats :
          /\ settlesBet(s, 20)
          /\ last'.results[s].result = "win"
          /\ isBlackjack(state'.players[s].cards)
          => last'.results[s].payout = 30 /\ state'.players[s].bankroll = 130
      ]_vars

\* a seat that bet 20 of 100 won with an ace and a ten and holds 130
BlackjackWinPaid ==
    /\ last.settled
    /\ \E s \in Seats :
          /\ state.players[s].bet = 20
          /\ last.results[s].result = "win"
          /\ state.players[s].cards = <<1, 10>>
          /\ last.results[s].payout = 30
          /\ state.players[s].bankroll = 130

\* C28, as stated: a seat that starts a hand with bankroll 100, bets 20 and
\* wins with a two-card blackjack is paid 30 and has bankroll 150 after
\* settlement
BlackjackWin150 ==
    [][\A s \in Seats :
          /\ settlesBet(s, 20)
          /\ last'.results[s].result = "win"
          /\ isBlackjack(state'.players[s].cards)
          => last'.results[s].payout = 30 /\ state'.players[s].bankroll = 150
      ]_vars

\* the hands after a deal of eight cards from the shoe of g, round-robin over
\* seat 0, seat 1, seat 2 and the dealer, twice
dealtRoundRobin(g, g1) ==
    LET c == g.shoe.cards
        d == g.shoe.dealt
    IN  /\ \A s \in Seats : g1.players[s].cards = <<c[d + 1 + s], c[d + 5 + s]>>
        /\ g1.dealer.cards = <<c[d + 4], c[d + 8]>>

\* exactly the seats whose two cards are a blackjack are standing
blackjacksStand(g) ==
    \A s \in Seats : g.players[s].isStanding <=> isBlackjack(g.players[s].cards)

\* C29: after a successful startDealing on a shoe with at least 8 cards the
\* seats and the dealer hold the two cards each of a round-robin deal over
\* seat 0, seat 1, seat 2, dealer, exactly the seats with a blackjack are
\* standing, and the phase is dealing
DealtInOrder ==
    [][last'.op = "startDealing" /\ last'.ok /\ getCardsRemaining(state.shoe) >= 8 =>
          /\ dealtRoundRobin(state, state')
          /\ blackjacksStand(state')
          /\ state'.phase = "dealing"
      ]_vars

\* the seat of an accepted hit or stand, before and after the step
acted(action) ==
    /\ last'.op \in {"applyPlayerAction", "makeDecisionForAgent"}
    /\ last'.ok
    /\ last'.action = action

\* what a hit does to its seat: the next card of the shoe appended, busted and
\* standing above 21, standing at 21, able to act below
hitSeat(p, q, card) ==
    /\ card # NoCard
    /\ q.cards = Append(p.cards, card)
    /\ q.isBusted = (calculateHandValue(q.cards) > 21)
    /\ q.isStanding = (calculateHandValue(q.cards) >= 21)

\* what a stand does to its seat: standing, no card drawn
stoodSeat(p, q) == q.cards = p.cards /\ q.isStanding /\ q.isBusted = p.isBusted

\* no other seat's hand or bet changes
othersKeepHands(seat) ==
    \A t \in Seats \ {seat} :
        /\ state'.players[t].cards = state.players[t].cards
        /\ state'.players[t].bet = state.players[t].bet

\* no other seat's bankroll and no dealer card changes
othersKeepMoney(seat) ==
    /\ \A t \in Seats \ {seat} : state'.players[t].bankroll = state.players[t].bankroll
    /\ state'.dealer.cards = state.dealer.cards

\* C30, as the code has it: an accepted hit appends the next shoe card to its
\* seat and marks it busted and standing above 21, standing at 21 and able to
\* act below; an accepted stand marks the seat standing and draws no card; no
\* other seat's hand or bet changes, and no other seat's bankroll and no
\* dealer card changes unless the action leaves no seat to act, when the same
\* call plays the dealer and settles the hand
ActionEffect ==
    [][/\ (acted("hit") /\ drawnCard(state.shoe) # NoCard) =>
              hitSeat(state.players[last'.seat], state'.players[last'.seat],
                      drawnCard(state.shoe))
       /\ acted("stand") => stoodSeat(state.players[last'.seat], state'.players[last'.seat])
       /\ (acted("hit") \/ acted("stand")) =>
              /\ othersKeepHands(last'.seat)
              /\ ~last'.settled => othersKeepMoney(last'.seat)
              /\ last'.settled => state'.dealer.isStanding /\ state'.phase = "finished"
      ]_vars

\* a hit has taken a seat to 21 in three cards and left it standing
HitTo21Stands ==
    /\ last.op = "applyPlayerAction" /\ last.ok /\ last.action = "hit"
    /\ Len(state.players[last.seat].cards) = 3
    /\ calculateHandValue(state.players[last.seat].cards) = 21
    /\ state.players[last.seat].isStanding
    /\ ~state.players[last.seat].isBusted

\* C30, as stated: an accepted hit or stand has its effect on its seat, and no
\* other seat's hand, bet or bankroll and no dealer card changes
ActionTouchesOneSeat ==
    [][/\ (acted("hit") /\ drawnCard(state.shoe) # NoCard) =>
              hitSeat(state.players[last'.seat], state'.players[last'.seat],
                      drawnCard(state.shoe))
       /\ acted("stand") => stoodSeat(state.players[last'.seat], state'.players[last'.seat])
       /\ (acted("hit") \/ acted("stand")) =>
              othersKeepHands(last'.seat) /\ othersKeepMoney(last'.seat)
      ]_vars

\* the table when the step that last' describes called playDealerHand: the
\* state before the step, with the action of the step applied to its seat
atDealerCall ==
    IF last'.op \in {"applyPlayerAction", "makeDecisionForAgent"}
    THEN actOn(state, last'.seat, last'.action)
    ELSE state

\* what playDealerHand leaves of the table g in h: the dealer standing; busted,
\* or not to hit, or the shoe exhausted; the busted flag set exactly above 21;
\* one card in the dealer's hand for every card drawn; the seats' hands as
\* they were
dealerPlayed(g, h) ==
    /\ h.dealer.isStanding
    /\ \/ calculateHandValue(h.dealer.cards) > 21
       \/ ~shouldDealerHit(h.dealer.cards)
       \/ getCardsRemaining(h.shoe) = 0
    /\ h.dealer.isBusted <=> calculateHandValue(h.dealer.cards) > 21
    /\ h.shoe.dealt - g.shoe.dealt = Len(h.dealer.cards) - Len(g.dealer.cards)
    /\ h.shoe.dealt - g.shoe.dealt \in 0..getCardsRemaining(g.shoe)
    /\ \A k \in 1..Len(g.dealer.cards) : h.dealer.cards[k] = g.dealer.cards[k]
    /\ \A s \in Seats : h.players[s].cards = g.players[s].cards

\* C31: playDealerHand returns after at most as many draws as the shoe has
\* cards, with the dealer standing and busted, or not to hit, or the shoe
\* exhausted; the dealer's busted flag is set exactly when the final value
\* exceeds 21, and no seat's hand is changed
DealerPlaysOut ==
    [][(last'.op = "playDealerHand" \/ (last'.settled /\ last'.op # "settleHands"))
       => dealerPlayed(atDealerCall, state')]_vars

\* the dealer drew the last card of the shoe and stands below 17
DealerStoppedByShoe ==
    /\ last.settled /\ last.op # "settleHands"
    /\ state.dealer.isStanding /\ ~state.dealer.isBusted
    /\ Len(state.dealer.cards) > 2
    /\ shouldDealerHit(state.dealer.cards)
    /\ getCardsRemaining(state.shoe) = 0

\* C32: a hand whose shoe runs out of cards during dealing or during the
\* decisions reaches the phase finished, whatever the agent answers
ExhaustedHandFinishes ==
    (state.phase \in {"dealing", "decisions"} /\ getCardsRemaining(state.shoe) = 0)
        ~> (state.phase = "finished")

\* C33: a double or split accepted for the current seat of the decisions phase
\* draws one card for the seat as a hit does, or marks the seat standing
DoubleActsAsHitOrStand ==
    [][(/\ last'.op \in {"applyPlayerAction", "makeDecisionForAgent"}
        /\ last'.ok
        /\ last'.action \in {"double", "split"}
        /\ state.phase = "decisions" /\ state.currentPlayerIndex = last'.seat
        /\ Len(state.players[last'.seat].cards) >= 2)
       => LET p == state.players[last'.seat]
              q == state'.players[last'.seat]
          IN  \/ q.isStanding
              \/ /\ drawnCard(state.shoe) # NoCard
                 /\ q.cards = Append(p.cards, drawnCard(state.shoe))
                 /\ state'.shoe = afterDraw(state.shoe)
      ]_vars

\* C34: every step that changes the phase leaves the hidden bookkeeping cleared:
\* after it no seat is recorded in the bet-completion map
PhaseChangeClearsBookkeeping ==
    [][state'.phase # state.phase
       => state'.debug.bettingCompletion = [s \in Seats |-> NotCompleted]]_vars

\* C35: agentCall does not retry after an attempt that ended with an HTTP error
\* status: the attempt is followed by the throw, never by the delay before a retry
NoRetryAfterHttpError ==
    [][(last.pc = "fetch" /\ last'.attempts # last.attempts
        /\ last'.attempts[Len(last'.attempts)].kind = "http")
       => last'.pc = "thrown"]_vars

\* C36: in the phases dealing and decisions the dealer of the state returned by
\* getState lists no card but the dealer's first, in cards and in visibleCards
GetStateShowsUpcardOnly ==
    (state.phase \in {"dealing", "decisions"} /\ Len(state.dealer.cards) >= 2)
    => /\ getState(state).dealer.visibleCards = <<state.dealer.cards[1]>>
       /\ getState(state).dealer.cards = <<state.dealer.cards[1]>>

\* C37: applyPlayerAction changes the hand or the flags of the seat it is
\* called for only when canPlayerAct holds for the seat, that is when the seat
\* is the current seat of the decisions phase and neither stands nor is busted
OnlyCurrentSeatActs ==
    [][(/\ last'.op = "applyPlayerAction"
        /\ last'.seat \in Seats
        /\ \/ state'.players[last'.seat].cards # state.players[last'.seat].cards
           \/ state'.players[last'.seat].isStanding # state.players[last'.seat].isStanding
           \/ state'.players[last'.seat].isBusted # state.players[last'.seat].isBusted)
       => canPlayerAct(state, last'.seat)]_vars

\* C38: a startNewHand that ends a hand in betting, dealing or decisions gives
\* every seat its escrowed bet back: the seat's bankroll after the call is its
\* bankroll plus its bet before the call
EscrowReturned ==
    [][(last'.op = "startNewHand" /\ state.phase \in {"betting", "dealing", "decisions"})
       => \A s \in Seats :
             state'.players[s].bankroll = state.players[s].bankroll + state.players[s].bet]_vars

\* C39: the reply to a call that was made for an earlier hand is not applied to
\* the hand on the table.  A decide call is made in the decisions phase and a
\* bet call in betting, so a decide reply that arrives in waiting or betting,
\* and a bet reply that arrives in waiting, answers a call of a hand that
\* startNewHand or resetEntireGame has replaced: it changes no seat's cards,
\* bet or flags, draws no card and moves neither the current seat nor the phase
StaleReplyNotApplied ==
    [][(\/ last'.op = "makeDecisionForAgent" /\ state.phase \in {"waiting", "betting"}
        \/ last'.op = "placeBetForAgent" /\ state.phase = "waiting")
       => /\ \A s \in Seats :
                /\ state'.players[s].cards = state.players[s].cards
                /\ state'.players[s].bet = state.players[s].bet
                /\ state'.players[s].bankroll = state.players[s].bankroll
                /\ state'.players[s].isStanding = state.players[s].isStanding
                /\ state'.players[s].isBusted = state.players[s].isBusted
          /\ state'.shoe = state.shoe
          /\ state'.dealer = state.dealer
          /\ state'.currentPlayerIndex = state.currentPlayerIndex
          /\ state'.phase = state.phase]_vars

\* C40: betting can always be completed: in the betting state that startNewHand
\* makes of a settled hand every seat has the minimum stake left to bet
BettingCanComplete ==
    state.phase = "finished"
    => \A s \in Seats :
          startNewHand(state).players[s].bankroll + startNewHand(state).players[s].bet >= MinBet

=============================================================================
